---- MODULE Spec2Model ----
(***************************************************************************)
(* Model of contextgem.py: the BOMExtractor class (construction, text      *)
(* extraction, schema selection, prompt construction, backend call, reply  *)
(* decoding, the three output methods) and the example driver main().      *)
(*                                                                         *)
(* Strings that the code only concatenates are sequences of tokens; a      *)
(* decoded JSON object is a function from its keys to its values.          *)
(***************************************************************************)
EXTENDS Integers, Sequences, FiniteSets, TLC

\* ---------------------------------------------------------------- bounds
MaxPages == 2   \* pages of a document
MaxItems == 2   \* item objects in one reply

\* ------------------------------------------------------------ environment
NoKey     == "<unset>"
EnvValues == {NoKey, "", "sk-test"}

DefaultModel == "gpt-4o-mini"
Models       == {DefaultModel, "gpt-4o"}

SupportedKinds == {"engineering", "simple"}
Kinds          == SupportedKinds \cup {"unknown_kind"}
Paths          == {"Sample_BOM_3.pdf", "Sample_BOM_4.pdf"}

Null == "<null>"

\* ------------------------------------------------------------------ text
Tok(k, s, d, n) == [k |-> k, s |-> s, d |-> d, n |-> n]
Lit(s)          == Tok("lit", s, "", 0)
PageMarker(n)   == Tok("page", "--- Page", "---", n)

\* what page.extract_text() may return for one page: nothing, or text that
\* itself carries the words the prompt uses as a heading
PagePool == {<<>>, <<Lit("Item 1: Resistor 10k qty 5"), Lit("Document text:")>>}

RECURSIVE SeqsUpTo(_, _)
SeqsUpTo(S, n) ==
    IF n = 0 THEN {<<>>}
    ELSE LET prev == SeqsUpTo(S, n - 1)
         IN  prev \cup {Append(q, x) : q \in {r \in prev : Len(r) = n - 1}, x \in S}

\* a document on disk: unreadable, or a sequence of pages
Readable(pages) == [readable |-> TRUE, pages |-> pages]
Unreadable      == [readable |-> FALSE, pages |-> <<>>]
DocPool         == {Unreadable} \cup {Readable(ps) : ps \in SeqsUpTo(PagePool, MaxPages)}

RECURSIVE PagesFrom(_, _)
PagesFrom(pages, page_num) ==
    IF page_num > Len(pages) THEN <<>>
    ELSE <<PageMarker(page_num)>> \o pages[page_num] \o PagesFrom(pages, page_num + 1)

extract_text_from_pdf(pages) == PagesFrom(pages, 1)

\* ---------------------------------------------------------------- schema
Field(name, desc) == [name |-> name, desc |-> desc]

EngineeringSchema ==
    << Field("item_number", "Line item number (e.g., '1', '2')"),
       Field("quantity", "Quantity needed"),
       Field("substitution_code", "Substitution code (S column, e.g., 6, 10)"),
       Field("manufacturer", "Manufacturer name"),
       Field("part_number", "Manufacturer part number"),
       Field("description", "Component description"),
       Field("reference_designator", "Reference designator (REF column, e.g., 'C1, C2', 'U1')"),
       Field("package", "Package type if specified (e.g., '0603', 'SOIC8')") >>

SimpleSchema ==
    << Field("category", "Category (e.g., STRUCTURE, ELECTRONICS, OTHER)"),
       Field("where", "Source/location"),
       Field("item", "Item description"),
       Field("quantity", "Quantity"),
       Field("unit_price", "Unit price"),
       Field("total", "Total cost") >>

SelectSchema(bom_type) ==
    IF bom_type = "engineering" THEN EngineeringSchema ELSE SimpleSchema

FieldNames(schema) == {schema[i].name : i \in 1..Len(schema)}

\* ---------------------------------------------------------------- prompt
json_dumps(schema) ==
    [i \in 1..Len(schema) |-> Tok("field", schema[i].name, schema[i].desc, 0)]

PromptHead ==
    << Lit("Extract ALL BOM (Bill of Materials) line items from this document."),
       Lit("Document contains a BOM table with these expected fields:") >>

Rules ==
    << Lit("CRITICAL INSTRUCTIONS:"),
       Tok("rule", "Extract EVERY line item - do not skip any rows", "", 1),
       Tok("rule", "Preserve exact values from the document", "", 2),
       Tok("rule", "If a field is empty or not present, use null", "", 3),
       Tok("rule", "Return ONLY valid JSON with no markdown formatting", "", 4),
       Tok("rule", "For engineering BOMs: Pay attention to substitution codes and reference designators", "", 5),
       Tok("rule", "For cost BOMs: Ensure calculations match (quantity x unit_price = total)", "", 6) >>

ReturnFormat(bom_type) ==
    << Lit("Return format:"),
       Tok("shape", "document_title", "extracted title if present", 0),
       Tok("shape", "bom_type", bom_type, 0),
       Tok("shape", "total_items", "<count>", 0),
       Tok("shape", "items", "[{field1: value1, field2: value2, ...}, ...]", 0) >>

DocumentHeading == Lit("Document text:")
Newline         == Lit("\n")

BuildPrompt_truncating(schema, bom_type, text) ==
    PromptHead \o json_dumps(schema) \o Rules \o ReturnFormat(bom_type)
        \o <<DocumentHeading>>
        \o SubSeq(text, 1, IF Len(text) > 2 THEN 2 ELSE Len(text))
        \o <<Newline>>

BuildPrompt(schema, bom_type, text) ==
    PromptHead \o json_dumps(schema) \o Rules \o ReturnFormat(bom_type)
        \o <<DocumentHeading>> \o text \o <<Newline>>

SystemMessage == "You are a precise BOM data extraction expert. Extract data exactly as it appears."

\* --------------------------------------------------------------- replies
EmptyDict == [k \in {} |-> Null]

Restrict(f, S) == [k \in S |-> f[k]]

EngItem ==
    [k \in FieldNames(EngineeringSchema) |->
        IF k = "substitution_code" THEN Null ELSE "v"]
PartialItem == Restrict(EngItem, {"item_number", "quantity"})
ItemPool    == {EngItem, PartialItem}

ItemSeqs == SeqsUpTo(ItemPool, MaxItems)

TopKeys == {"document_title", "bom_type", "total_items", "items"}

ReplyObject(keys, title, kind, count, items) ==
    [k \in keys |->
        CASE k = "document_title" -> title
          [] k = "bom_type"       -> kind
          [] k = "total_items"    -> count
          [] k = "items"          -> items]

ReplyObjects ==
    {ReplyObject(keys, "Sample BOM", kind, count, items) :
        keys \in SUBSET TopKeys, kind \in SupportedKinds,
        count \in 0..MaxItems, items \in ItemSeqs}

\* the content of a backend reply: text that decodes to obj, or text that
\* does not decode at all
Content(valid, obj) == [valid |-> valid, obj |-> obj]
InvalidContent      == Content(FALSE, EmptyDict)
Contents            == {InvalidContent} \cup {Content(TRUE, o) : o \in ReplyObjects}

json_loads(content) ==
    IF content.valid THEN [ok |-> TRUE, value |-> content.obj]
    ELSE [ok |-> FALSE, value |-> EmptyDict]

Has(d, k) == k \in DOMAIN d

\* ----------------------------------------------------------------- state
VARIABLES
    mode,       \* "script": run as __main__; "library": imported by a caller
    env_key,    \* value of OPENAI_API_KEY in the environment
    extractor,  \* the BOMExtractor instance (api_key, client, model)
    pc,         \* position of the driver / caller
    doc,        \* index of the job main() is working on
    request,    \* arguments of the running extract_bom_data call
    stage,      \* position inside extract_bom_data
    stages,     \* stages the running extraction went through
    text,       \* local: text
    schema,     \* local: schema
    prompt,     \* local: prompt
    sent,       \* the request the backend received
    call_llm,   \* backend calls made by the running extraction
    response,   \* local: response.choices[0].message.content
    result,     \* value returned by extract_bom_data (bom3 / bom4 in main)
    error,      \* exception that propagated out, if any
    log         \* console lines and files main() produced, in order

vars == << mode, env_key, extractor, pc, doc, request, stage, stages, text,
           schema, prompt, sent, call_llm, response, result, error, log >>

NoExtractor == [api_key |-> NoKey, client |-> NoKey, model |-> "<none>"]
NoRequest   == [pdf_path |-> "", bom_type |-> ""]
NoPayload   == [model |-> "", system |-> "", user |-> <<>>, temperature |-> 0,
                response_format |-> ""]

Job(path, kind, csv, json) ==
    [pdf_path |-> path, bom_type |-> kind, csv |-> csv, json |-> json]

Jobs ==
    << Job("Sample_BOM_3.pdf", "engineering", "extracted_bom_3.csv", "extracted_bom_3.json"),
       Job("Sample_BOM_4.pdf", "simple", "extracted_bom_4.csv", "extracted_bom_4.json") >>

Event(ev, d) == [ev |-> ev, doc |-> d]

Init ==
    /\ mode \in {"script", "library"}
    /\ env_key \in EnvValues
    /\ extractor = NoExtractor
    /\ pc = "construct"
    /\ doc = 1
    /\ request = NoRequest
    /\ stage = "Idle"
    /\ stages = <<>>
    /\ text = <<>>
    /\ schema = <<>>
    /\ prompt = <<>>
    /\ sent = NoPayload
    /\ call_llm = 0
    /\ response = InvalidContent
    /\ result = EmptyDict
    /\ error = "none"
    /\ log = <<>>

\* -------------------------------------------------------------- __init__
Truthy(key) == key \notin {NoKey, ""}

Client(api_key) == api_key

BOMExtractor_init_unchecked(key, model) ==
    [ok |-> TRUE, err |-> "none",
     self |-> [api_key |-> key, client |-> Client(key), model |-> model]]

BOMExtractor_init(key, model) ==
    IF ~Truthy(key)
    THEN [ok |-> FALSE, err |-> "ValueError", self |-> NoExtractor]
    ELSE [ok |-> TRUE, err |-> "none",
          self |-> [api_key |-> key, client |-> Client(key), model |-> model]]

Construct ==
    /\ pc = "construct"
    /\ \E m \in (IF mode = "script" THEN {DefaultModel} ELSE Models) :
          LET r == BOMExtractor_init(env_key, m)
          IN  /\ extractor' = r.self
              /\ error' = r.err
              /\ pc' = IF r.ok THEN "ready" ELSE "aborted"
    /\ UNCHANGED << mode, env_key, doc, request, stage, stages, text, schema,
                    prompt, sent, call_llm, response, result, log >>

\* ------------------------------------------------------ extract_bom_data
\* the caller of the running extraction gets the exception: main() has no
\* handler and ends; a library caller is free to go on
Raise(e) ==
    /\ error' = e
    /\ stage' = "Failed"
    /\ stages' = Append(stages, "Failed")
    /\ pc' = IF mode = "script" THEN "aborted" ELSE "ready"

Enter(path, kind) ==
    /\ request' = [pdf_path |-> path, bom_type |-> kind]
    /\ stage' = "Entered"
    /\ stages' = <<"Entered">>
    /\ text' = <<>>
    /\ schema' = <<>>
    /\ prompt' = <<>>
    /\ sent' = NoPayload
    /\ call_llm' = 0
    /\ response' = InvalidContent
    /\ result' = EmptyDict
    /\ error' = "none"
    /\ pc' = "in_call"

\* main(): the "Processing ..." line, then extractor.extract_bom_data(...)
MainExtract ==
    /\ mode = "script"
    /\ pc = "ready"
    /\ Enter(Jobs[doc].pdf_path, Jobs[doc].bom_type)
    /\ log' = Append(log, Event("processing", doc))
    /\ UNCHANGED << mode, env_key, extractor, doc >>

\* a caller that imported the module calls extract_bom_data with any arguments
CallerExtract ==
    /\ mode = "library"
    /\ pc = "ready"
    /\ \E path \in Paths, kind \in Kinds : Enter(path, kind)
    /\ UNCHANGED << mode, env_key, extractor, doc, log >>

ExtractText ==
    /\ stage = "Entered"
    /\ \E d \in DocPool :
          IF d.readable
          THEN /\ text' = extract_text_from_pdf(d.pages)
               /\ stage' = "TextReady"
               /\ stages' = Append(stages, "TextReady")
               /\ UNCHANGED << error, pc >>
          ELSE /\ Raise("OSError")
               /\ UNCHANGED text
    /\ UNCHANGED << mode, env_key, extractor, doc, request, schema, prompt,
                    sent, call_llm, response, result, log >>

CreatePrompt ==
    /\ stage = "TextReady"
    /\ schema' = SelectSchema(request.bom_type)
    /\ prompt' = BuildPrompt(SelectSchema(request.bom_type), request.bom_type, text)
    /\ stage' = "PromptBuilt"
    /\ stages' = Append(stages, "PromptBuilt")
    /\ UNCHANGED << mode, env_key, extractor, pc, doc, request, text, sent,
                    call_llm, response, result, error, log >>

Payload ==
    [model |-> extractor.model, system |-> SystemMessage, user |-> prompt,
     temperature |-> 0, response_format |-> "json_object"]

\* a variant that tries again after a backend failure
CallLLM_retrying ==
    /\ stage = "PromptBuilt"
    /\ sent' = Payload
    /\ call_llm' = call_llm + 1
    /\ \/ \E c \in Contents :
             /\ response' = c
             /\ stage' = "ReplyReceived"
             /\ stages' = Append(stages, "ReplyReceived")
             /\ UNCHANGED << error, pc >>
       \/ /\ IF call_llm = 0
             THEN UNCHANGED << stage, stages, error, pc >>
             ELSE Raise("APIError")
          /\ UNCHANGED response
    /\ UNCHANGED << mode, env_key, extractor, doc, request, text, schema,
                    prompt, result, log >>

\* a variant that switches the extractor to another model after a failure
CallLLM_fallback ==
    /\ stage = "PromptBuilt"
    /\ sent' = Payload
    /\ call_llm' = call_llm + 1
    /\ \/ \E c \in Contents :
             /\ response' = c
             /\ stage' = "ReplyReceived"
             /\ stages' = Append(stages, "ReplyReceived")
             /\ UNCHANGED << error, pc, extractor >>
       \/ /\ Raise("APIError")
          /\ extractor' = [extractor EXCEPT !.model = "gpt-4o"]
          /\ UNCHANGED response
    /\ UNCHANGED << mode, env_key, doc, request, text, schema, prompt,
                    result, log >>

CallLLM ==
    /\ stage = "PromptBuilt"
    /\ sent' = Payload
    /\ call_llm' = call_llm + 1
    /\ \/ \E c \in Contents :
             /\ response' = c
             /\ stage' = "ReplyReceived"
             /\ stages' = Append(stages, "ReplyReceived")
             /\ UNCHANGED << error, pc >>
       \/ /\ Raise("APIError")
          /\ UNCHANGED response
    /\ UNCHANGED << mode, env_key, extractor, doc, request, text, schema,
                    prompt, result, log >>

ParseResponse ==
    /\ stage = "ReplyReceived"
    /\ LET r == json_loads(response)
       IN  IF r.ok
           THEN /\ result' = r.value
                /\ stage' = "Done"
                /\ stages' = Append(stages, "Done")
                /\ pc' = IF mode = "script" THEN "summary" ELSE "ready"
                /\ log' = IF mode = "script"
                          THEN Append(log, Event("returned", doc)) ELSE log
                /\ UNCHANGED error
           ELSE /\ Raise("JSONDecodeError")
                /\ UNCHANGED << result, log >>
    /\ UNCHANGED << mode, env_key, extractor, doc, request, text, schema,
                    prompt, sent, call_llm, response >>

\* -------------------------------------------------------- output methods
Abort(e) ==
    /\ error' = e
    /\ pc' = "aborted"

print_summary ==
    /\ mode = "script"
    /\ pc = "summary"
    /\ IF Has(result, "items")
       THEN /\ log' = Append(log, Event("summary", doc))
            /\ pc' = "csv"
            /\ UNCHANGED error
       ELSE /\ Abort("KeyError")
            /\ UNCHANGED log
    /\ UNCHANGED << mode, env_key, extractor, doc, request, stage, stages,
                    text, schema, prompt, sent, call_llm, response, result >>

\* a variant of the driver that swallows a failed CSV write and goes on
save_to_csv_continuing ==
    /\ mode = "script"
    /\ pc = "csv"
    /\ \/ /\ Has(result, "items")
          /\ log' = Append(log, Event("csv", doc))
       \/ UNCHANGED log
    /\ pc' = "json"
    /\ UNCHANGED << mode, env_key, extractor, doc, request, stage, stages,
                    text, schema, prompt, sent, call_llm, response, result,
                    error >>

save_to_csv ==
    /\ mode = "script"
    /\ pc = "csv"
    /\ \/ /\ Has(result, "items")
          /\ log' = Append(log, Event("csv", doc))
          /\ pc' = "json"
          /\ UNCHANGED error
       \/ /\ Abort(IF Has(result, "items") THEN "OSError" ELSE "KeyError")
          /\ UNCHANGED log
    /\ UNCHANGED << mode, env_key, extractor, doc, request, stage, stages,
                    text, schema, prompt, sent, call_llm, response, result >>

save_to_json ==
    /\ mode = "script"
    /\ pc = "json"
    /\ \/ /\ log' = Append(log, Event("json", doc))
          /\ IF doc < Len(Jobs)
             THEN doc' = doc + 1 /\ pc' = "ready"
             ELSE doc' = doc /\ pc' = "done"
          /\ UNCHANGED error
       \/ /\ Abort("OSError")
          /\ UNCHANGED << log, doc >>
    /\ UNCHANGED << mode, env_key, extractor, request, stage, stages, text,
                    schema, prompt, sent, call_llm, response, result >>

Next ==
    \/ Construct
    \/ MainExtract
    \/ CallerExtract
    \/ ExtractText
    \/ CreatePrompt
    \/ CallLLM
    \/ ParseResponse
    \/ print_summary
    \/ save_to_csv
    \/ save_to_json

Spec == Init /\ [][Next]_vars

\* ================================================================ claims
Reply == response.obj

Returned == stage = "Done"

\* C1: a request for a BOM kind that is not "engineering" or "simple" fails
\* with UnknownBomKind, and no backend call is made for it.
C1_UnknownKindFailsBeforeBackend ==
    (stage # "Idle" /\ request.bom_type \notin SupportedKinds) =>
        /\ call_llm = 0
        /\ stage \notin {"ReplyReceived", "Done"}
        /\ (stage = "Failed" => error \in {"UnknownBomKind", "OSError"})

\* C2: a decoded reply without the items key is never returned as a success.
C2_MissingItemsNeverReturned ==
    Returned => (Has(Reply, "items") /\ Has(result, "items"))

\* C3: in every returned result total_items equals the length of items.
C3_TotalItemsIsLength ==
    (Returned /\ Has(result, "items")) =>
        (Has(result, "total_items") /\ result["total_items"] = Len(result["items"]))

\* C4: for a supported kind and a reply with N item objects the result has
\* N Items in the reply's order, each with every field of the kind's schema.
C4_ItemsCompleteAndUniform ==
    (Returned /\ request.bom_type \in SupportedKinds /\ Has(Reply, "items")) =>
        /\ Has(result, "items")
        /\ Len(result["items"]) = Len(Reply["items"])
        /\ \A i \in 1..Len(Reply["items"]) :
              /\ \A k \in DOMAIN Reply["items"][i] :
                    /\ k \in DOMAIN result["items"][i]
                    /\ result["items"][i][k] = Reply["items"][i][k]
              /\ FieldNames(SelectSchema(request.bom_type))
                    \subseteq DOMAIN result["items"][i]

\* C5: without a credential in the environment construction fails, and
\* nothing of an extraction (no document read, no request, no backend call,
\* no output) happens while there is no extractor.
C5_MissingCredentialFailsFirst ==
    /\ extractor = NoExtractor =>
          /\ stage = "Idle" /\ request = NoRequest /\ text = <<>>
          /\ call_llm = 0 /\ sent = NoPayload /\ log = <<>>
    /\ ~Truthy(env_key) =>
          /\ extractor = NoExtractor
          /\ pc \in {"construct", "aborted"}
          /\ (pc = "aborted" => error = "ValueError")
    /\ extractor # NoExtractor =>
          (Truthy(extractor.api_key) /\ extractor.api_key = env_key)

C5_Witness ==
    env_key = NoKey /\ pc = "aborted" /\ error = "ValueError" /\ stage = "Idle"

\* C6: a reply whose bom_type differs from the requested kind is returned
\* with document_title and bom_type as the reply has them, and a
\* BomTypeMismatch warning is recorded.
WarningRecorded ==
    \/ Has(result, "warnings")
    \/ \E i \in 1..Len(log) : log[i].ev = "BomTypeMismatch"

C6_MismatchReturnedWithWarning ==
    (stage \in {"Done", "Failed"} /\ response.valid /\ Has(Reply, "bom_type")
        /\ Reply["bom_type"] # request.bom_type) =>
        /\ Returned
        /\ Has(result, "bom_type") /\ result["bom_type"] = Reply["bom_type"]
        /\ Has(Reply, "document_title") =>
              (Has(result, "document_title")
                 /\ result["document_title"] = Reply["document_title"])
        /\ WarningRecorded

\* C7: an extraction goes once through text extraction, prompt
\* construction, backend call, decoding, return, in that order; it calls
\* the backend at most once, and a backend failure ends it with the failure
\* raised and no result.
LinearOrder == <<"Entered", "TextReady", "PromptBuilt", "ReplyReceived", "Done">>

IsPrefix(s, t) == Len(s) <= Len(t) /\ s = SubSeq(t, 1, Len(s))

C7_SingleLinearPass ==
    /\ call_llm <= 1
    /\ IF stage = "Failed"
       THEN /\ Len(stages) >= 2
            /\ stages[Len(stages)] = "Failed"
            /\ IsPrefix(SubSeq(stages, 1, Len(stages) - 1), LinearOrder)
            /\ Len(stages) <= Len(LinearOrder)
       ELSE /\ IsPrefix(stages, LinearOrder)
            /\ stage = (IF stages = <<>> THEN "Idle" ELSE stages[Len(stages)])
    /\ (call_llm = 1) = (sent # NoPayload)
    /\ stage \in {"ReplyReceived", "Done"} => call_llm = 1
    /\ (stage = "Failed" /\ error = "APIError") =>
          /\ stages = <<"Entered", "TextReady", "PromptBuilt", "Failed">>
          /\ call_llm = 1
          /\ result = EmptyDict
          /\ mode = "script" => pc = "aborted"

C7_Witness ==
    stage = "Failed" /\ error = "APIError" /\ call_llm = 1

\* C8: no step after construction changes the extractor's configuration or
\* the environment, and the payload and the result of an extraction are
\* functions of its own text, kind and reply.
ConfigurationKept ==
    extractor # NoExtractor => (extractor' = extractor /\ env_key' = env_key)

OwnInputsOnly ==
    /\ stage \in {"PromptBuilt", "ReplyReceived", "Done"} =>
          prompt = BuildPrompt(SelectSchema(request.bom_type), request.bom_type, text)
    /\ sent # NoPayload =>
          /\ sent.user = prompt
          /\ sent.model = extractor.model
          /\ extractor.model \in Models
    /\ Returned => result = Reply

C8_NoSharedMutableState == []OwnInputsOnly /\ [][ConfigurationKept]_vars

C8_Witness ==
    mode = "script" /\ doc = 2 /\ Returned /\ Has(result, "items")

\* C9: the payload sent to the backend holds the whole document text,
\* unchanged, after the schema's field mapping, the rules and the output
\* shape, and the output shape names the requested kind as bom_type.
Occurs(p, s, i) ==
    /\ i >= 1
    /\ i + Len(s) - 1 <= Len(p)
    /\ SubSeq(p, i, i + Len(s) - 1) = s

Positions(p, s, last) == {i \in 1..last : Occurs(p, s, i) /\ i + Len(s) - 1 <= last}

C9_FullTextAfterInstructions ==
    sent # NoPayload =>
        LET p      == sent.user
            start  == Len(p) - Len(text)
            before == start - 1
            shape  == ReturnFormat(request.bom_type)
            fields == json_dumps(SelectSchema(request.bom_type))
        IN  /\ start >= 1
            /\ Occurs(p, text, start)
            /\ text = SubSeq(p, start, Len(p) - 1)
            /\ \E a \in Positions(p, fields, before) :
                 \E b \in Positions(p, Rules, before) :
                   \E c \in Positions(p, shape, before) :
                     /\ a + Len(fields) <= b
                     /\ b + Len(Rules) <= c
            /\ \E i \in 1..before :
                 p[i] = Tok("shape", "bom_type", request.bom_type, 0)

C9_Witness ==
    /\ sent # NoPayload
    /\ Len(text) > MaxPages
    /\ request.bom_type = "engineering"

\* C10: main() works through its documents in sequence, each one as
\* extraction, summary, CSV, JSON; a file is written only after the
\* document's extraction returned; after a failure nothing more happens.
MainSteps == <<"processing", "returned", "summary", "csv", "json">>

ExpectedLog ==
    [i \in 1..(Len(MainSteps) * Len(Jobs)) |->
        Event(MainSteps[((i - 1) % Len(MainSteps)) + 1],
              ((i - 1) \div Len(MainSteps)) + 1)]

Logged(ev, d) == \E i \in 1..Len(log) : log[i] = Event(ev, d)

InSequence ==
    /\ IsPrefix(log, ExpectedLog)
    /\ \A d \in 1..Len(Jobs) :
          /\ (Logged("csv", d) \/ Logged("json", d)) =>
                (Logged("returned", d) /\ (doc = d => Returned))
          /\ (d > 1 /\ Logged("processing", d)) => Logged("json", d - 1)
    /\ pc = "done" => log = ExpectedLog
    /\ pc = "aborted" => (error # "none" /\ log # ExpectedLog)

NothingAfterFailure == pc = "aborted" => UNCHANGED vars

C10_DriverSequentialFailFast == []InSequence /\ [][NothingAfterFailure]_vars

C10_Witness ==
    mode = "script" /\ pc = "aborted" /\ doc = 2 /\ Logged("csv", 1)
        /\ Logged("json", 1) /\ Logged("summary", 2) /\ ~Logged("csv", 2)

====
